---- MODULE Spec2Model ----
(***************************************************************************)
(* Verification model of three fragments of barretenberg:                  *)
(*   - smt_verification/circuit/circuit.test.cpp : four SMT tests of       *)
(*     standard circuits (expressionTrue, multiplicationTrueKind,          *)
(*     multiplicationFalse, uniqueWitness);                                *)
(*   - smt_verification/util/smt_util.hpp : default_model and              *)
(*     default_model_single, the witness dumps;                            *)
(*   - vm2/generated/relations/lookups_bc_decomposition.hpp : the settings *)
(*     of the lookup lookup_bytecode_to_read_unary.                        *)
(* Each fragment has a specification of its own: SpecSmt, SpecDump,        *)
(* SpecLookup and SpecRow.  A specification keeps the variables of the     *)
(* other fragments at their idle values.                                   *)
(***************************************************************************)
EXTENDS Integers, Sequences, FiniteSets, TLC

VARIABLES
    \* circuit.test.cpp
    test,        \* the TEST being run
    pc,          \* "start" before the TEST body, "done" after it
    res,         \* bool res = s.check()
    model,       \* the solver's model when res is true (any satisfying one)
    vals,        \* s.model(terms): name -> printed value
    \* smt_util.hpp
    c1, c2,      \* the circuits: real_variable_index and symbolic_vars
    smodel,      \* the solver's current model: term name -> field value
    fs,          \* the file system: file name -> content (lines)
    last,        \* per file, the last dump call that opened it (history)
    \* lookups_bc_decomposition.hpp
    trace,       \* the rows of the trace (the columns get_entities binds)
    lpc,         \* "build" while rows are added, "checked" after the relation ran
    accepted,    \* whether the lookup relation accepted the trace
    in,          \* one row handed to the two inverse predicates
    inverse_exists,   \* compute_inverse_exists(in), once evaluated
    inverse_computed, \* inverse_polynomial_is_computed_at_row(in), once evaluated
    evaluated    \* which of the two have been evaluated

smtVars == <<test, pc, res, model, vals>>
dumpVars == <<c1, c2, smodel, fs, last>>
lookupVars == <<trace, lpc, accepted>>
rowVars == <<in, inverse_exists, inverse_computed, evaluated>>
vars == <<smtVars, dumpVars, lookupVars, rowVars>>

----
(* The scalar field.  circuit_info.modulus is the BN254 scalar modulus; the *)
(* model scales it down to a small prime in which 2 and 3 are invertible.   *)
Modulus == 7

Field == 0 .. (Modulus - 1)

FAdd(x, y) == (x + y) % Modulus

FMul(x, y) == (x * y) % Modulus

FSub(x, y) == (x - y + Modulus) % Modulus

(* Printing of a value: the decimal digits of the least non-negative       *)
(* representative, most significant first.                                 *)
Digits == <<"0", "1", "2", "3", "4", "5", "6", "7", "8", "9">>

RECURSIVE Dec(_)
Dec(n) == IF n < 10 THEN <<Digits[n + 1]>>
          ELSE Dec(n \div 10) \o <<Digits[(n % 10) + 1]>>

----
(***************************************************************************)
(* circuit.test.cpp                                                        *)
(***************************************************************************)

(* field_t::operator/ : the divisor is asserted non-zero and the quotient  *)
(* witness q is constrained by q * d = n.  (multiplicationTrueKind expects *)
(* no model although its assertion cr * 3 * b1 == 2 * a1 allows b1 = 0:    *)
(* the circuit itself excludes a zero divisor.)  The additions are linear  *)
(* gates whose outputs are the sums.                                       *)
field_div(n, d, q) == d # 0 /\ FMul(q, d) = n

(* FFTerm::operator/ : other != 0, a fresh variable res, res * other ==    *)
(* this.                                                                   *)
ffterm_div(n, d, q) == d # 0 /\ FMul(q, d) = n

TestVars == {"a", "b", "c", "cr"}

Assignments == [TestVars -> Field]

\* field_t c = (a + a) / (b + b + b);
Mutant_expressionTrue_circuit(w) == field_div(w.a, FAdd(FAdd(w.b, w.b), w.b), w.c)

expressionTrue_circuit(w) ==
    field_div(FAdd(w.a, w.a), FAdd(FAdd(w.b, w.b), w.b), w.c)

\* cr = (2 * a1) / (2 * b1 + b1); c1 != cr;
expressionTrue_assertions(w) ==
    /\ ffterm_div(FMul(2, w.a), FAdd(FMul(2, w.b), w.b), w.cr)
    /\ w.c # w.cr

\* field_t c = (a + a) / (b + b + b);   (the mutant divides without the
\* divisor check, as divide_no_zero_check does)
Mutant_multiplicationTrueKind_circuit(w) ==
    FMul(w.c, FAdd(FAdd(w.b, w.b), w.b)) = FAdd(w.a, w.a)

multiplicationTrueKind_circuit(w) ==
    field_div(FAdd(w.a, w.a), FAdd(FAdd(w.b, w.b), w.b), w.c)

\* cr * 3 * b1 == 2 * a1; c1 != cr;
multiplicationTrueKind_assertions(w) ==
    /\ FMul(FMul(w.cr, 3), w.b) = FMul(2, w.a)
    /\ w.c # w.cr

\* field_t c = (a) / (b + b + b); // mistake was here
Mutant_multiplicationFalse_circuit(w) ==
    field_div(FAdd(w.a, w.a), FAdd(FAdd(w.b, w.b), w.b), w.c)

multiplicationFalse_circuit(w) ==
    field_div(w.a, FAdd(FAdd(w.b, w.b), w.b), w.c)

\* cr = (2 * a1) / (3 * b1); c1 != cr;
multiplicationFalse_assertions(w) ==
    /\ ffterm_div(FMul(2, w.a), FMul(3, w.b), w.cr)
    /\ w.c # w.cr

UniqueVars == {"a", "b", "z", "ev"}

\* field_t ev = z * z + a * z + b;
uniqueWitness_circuit(w) ==
    w.ev = FAdd(FAdd(FMul(w.z, w.z), FMul(w.a, w.z)), w.b)

(* unique_witness_ext: two copies of the circuit over one solver; every    *)
(* name of equal is equal in both, every name of not_equal differs, the    *)
(* names of equal_at_the_same_time are all equal and at least one name of  *)
(* not_equal_at_the_same_time differs.                                     *)
unique_witness_ext(m1, m2, equal, not_equal, eqs, neqs) ==
    /\ \A v \in equal : m1[v] = m2[v]
    /\ \A v \in not_equal : m1[v] # m2[v]
    /\ \A v \in eqs : m1[v] = m2[v]
    /\ neqs # {} => \E v \in neqs : m1[v] # m2[v]

\* unique_witness_ext(circuit_info, &s, { "ev" }, { "z" }, {}, {})
Mutant_uniqueWitness_call(m1, m2) == unique_witness_ext(m1, m2, {"z"}, {"ev"}, {}, {})

uniqueWitness_call(m1, m2) == unique_witness_ext(m1, m2, {"ev"}, {"z"}, {}, {})

(* The satisfying assignments of each TEST's solver.                       *)
Models_expressionTrue ==
    {w \in Assignments : expressionTrue_circuit(w) /\ expressionTrue_assertions(w)}

Models_multiplicationTrueKind ==
    {w \in Assignments :
        multiplicationTrueKind_circuit(w) /\ multiplicationTrueKind_assertions(w)}

Models_multiplicationFalse ==
    {w \in Assignments :
        multiplicationFalse_circuit(w) /\ multiplicationFalse_assertions(w)}

UniqueCopies == {w \in [UniqueVars -> Field] : uniqueWitness_circuit(w)}

Models_uniqueWitness ==
    {p \in UniqueCopies \X UniqueCopies : uniqueWitness_call(p[1], p[2])}

(* Solver::check: whether the assertions have a model.                     *)
check(models) == models # {}

(* Solver::model(terms): the printed value of each named term.             *)
solver_model(terms, m) == [k \in DOMAIN terms |-> Dec(m[terms[k]])]

Tests == {"expressionTrue", "multiplicationTrueKind", "multiplicationFalse",
          "uniqueWitness"}

NoModel == <<>>

InitSmt ==
    /\ test \in Tests
    /\ pc = "start"
    /\ res = FALSE
    /\ model = NoModel
    /\ vals = <<>>

IdleSmt ==
    /\ test = "none"
    /\ pc = "done"
    /\ res = FALSE
    /\ model = NoModel
    /\ vals = <<>>

\* TEST(circuit, expressionTrue)
ExpressionTrue ==
    /\ test = "expressionTrue" /\ pc = "start"
    /\ res' = check(Models_expressionTrue)
    /\ pc' = "done"
    /\ UNCHANGED <<test, model, vals>>

\* TEST(circuit, multiplicationTrueKind)
MultiplicationTrueKind ==
    /\ test = "multiplicationTrueKind" /\ pc = "start"
    /\ res' = check(Models_multiplicationTrueKind)
    /\ pc' = "done"
    /\ UNCHANGED <<test, model, vals>>

\* TEST(circuit, multiplicationFalse): ASSERT_TRUE(res) ends the body when
\* res is false; otherwise the values of a, b, c and cr are read.
MultiplicationFalse ==
    /\ test = "multiplicationFalse" /\ pc = "start"
    /\ res' = check(Models_multiplicationFalse)
    /\ pc' = "done"
    /\ IF check(Models_multiplicationFalse)
       THEN \E m \in Models_multiplicationFalse :
               /\ model' = m
               /\ vals' = solver_model([a |-> "a", b |-> "b", c |-> "c", cr |-> "cr"], m)
       ELSE UNCHANGED <<model, vals>>
    /\ UNCHANGED test

\* TEST(circuit, uniqueWitness)
UniqueWitness ==
    /\ test = "uniqueWitness" /\ pc = "start"
    /\ res' = check(Models_uniqueWitness)
    /\ pc' = "done"
    /\ IF check(Models_uniqueWitness)
       THEN \E p \in Models_uniqueWitness :
               /\ model' = p
               /\ vals' = [z_c1 |-> Dec(p[1].z), z_c2 |-> Dec(p[2].z)]
       ELSE UNCHANGED <<model, vals>>
    /\ UNCHANGED test

----
(***************************************************************************)
(* smt_util.hpp                                                            *)
(***************************************************************************)

NumVars == 2

Idx == 0 .. (NumVars - 1)

(* The values the solver's model takes in the model: two suffice to tell  *)
(* one variable's value from another's, one printed with one digit and     *)
(* one with two.                                                           *)
DumpVals == {0, 12}

FileNames == {"witness.out", "other.out"}

(* real_variable_index: every variable's canonical representative, itself  *)
(* its own representative.                                                 *)
RealIndexMaps == {f \in [Idx -> Idx] : \A i \in Idx : f[f[i]] = f[i]}

(* Circuit::symbolic_vars[i]: the term of variable i, named after the      *)
(* variable and the circuit's tag, so no two terms share a name.           *)
symbolic_vars(c, i) == <<"var_", i, c.tag>>

get_num_vars(c) == NumVars

TermNames == {<<"var_", i, t>> : i \in Idx, t \in {"_c1", "_c2"}}

(* Solver::model(std::vector<cvc5::Term>): a map from each term's name     *)
(* (toString) to its printed value.                                        *)
model_of_terms(vterms) ==
    [nm \in {vterms[k] : k \in DOMAIN vterms} |-> Dec(smodel[nm])]

(* myfile.open(fname, std::ios::out | std::ios::trunc | std::ios::binary)  *)
Mutant_open_trunc(old) == old

open_trunc(old) == <<>>

\* default_model: vterms1.push_back(c1.symbolic_vars[c1.real_variable_index[i]])
Mutant_default_model_vterms(c) == [i \in Idx |-> symbolic_vars(c, i)]

default_model_vterms(c) == [i \in Idx |-> symbolic_vars(c, c.real_variable_index[i])]

\* default_model_single: vterms.push_back(c.symbolic_vars[i])
Mutant_default_model_single_vterms(c) ==
    [i \in Idx |-> symbolic_vars(c, c.real_variable_index[i])]

default_model_single_vterms(c) == [i \in Idx |-> symbolic_vars(c, i)]

\* default_model, the body of the loop writing line i
default_model_line(ca, cb, vterms1, vterms2, mmap1, mmap2, i) ==
    LET vname1 == vterms1[i]
        vname2 == vterms2[i]
    IN  IF ca.real_variable_index[i] = i
        THEN <<"{", mmap1[vname1], ", ", mmap2[vname2], "}",
               ",           // ", vname1, ", ", vname2>>
        ELSE <<"{", mmap1[vname1], ", ", mmap2[vname2], "}",
               ",           // ", vname1, " ,", vname2,
               " -> ", ca.real_variable_index[i]>>

\* default_model_single, the body of the loop writing line i
default_model_single_line(c, vterms, mmap, i) ==
    LET vname == vterms[i]
    IN  IF c.real_variable_index[i] = i
        THEN <<mmap[vname], ",              // ", vname>>
        ELSE <<mmap[vname], ",              // ", vname,
               " -> ", c.real_variable_index[i]>>

\* default_model: what is written to the opened file
default_model_written(ca, cb) ==
    LET vterms1 == default_model_vterms(ca)
        vterms2 == default_model_vterms(cb)
        mmap1 == model_of_terms(vterms1)
        mmap2 == model_of_terms(vterms2)
    IN  <<  <<"w12 = {">>  >>
        \o [k \in 1 .. get_num_vars(ca) |->
              default_model_line(ca, cb, vterms1, vterms2, mmap1, mmap2, k - 1)]
        \o <<  <<"};">>  >>

\* default_model_single: what is written to the opened file
default_model_single_written(c) ==
    LET vterms == default_model_single_vterms(c)
        mmap == model_of_terms(vterms)
    IN  <<  <<"w = {">>  >>
        \o [k \in 1 .. get_num_vars(c) |->
              default_model_single_line(c, vterms, mmap, k - 1)]
        \o <<  <<"};">>  >>

InitDump ==
    /\ c1 \in [real_variable_index : RealIndexMaps, tag : {"_c1"}]
    /\ c2 \in [real_variable_index : RealIndexMaps, tag : {"_c2"}]
    /\ smodel \in [TermNames -> DumpVals]
    /\ fs = [f \in FileNames |-> <<>>]
    /\ last = [f \in FileNames |-> "none"]

IdleDump ==
    /\ c1 = [real_variable_index |-> [i \in Idx |-> i], tag |-> "_c1"]
    /\ c2 = [real_variable_index |-> [i \in Idx |-> i], tag |-> "_c2"]
    /\ smodel = [nm \in TermNames |-> 0]
    /\ fs = [f \in FileNames |-> <<>>]
    /\ last = [f \in FileNames |-> "none"]

\* default_model(special, c1, c2, s, fname).  The loop runs over
\* c1.get_num_vars() for both circuits, which here have as many variables;
\* their real_variable_index maps are independent.  The info() lines on the
\* special names go to the console and leave the state alone.
DefaultModel(fname) ==
    /\ fs' = [fs EXCEPT ![fname] = open_trunc(fs[fname]) \o default_model_written(c1, c2)]
    /\ last' = [last EXCEPT ![fname] = "default_model"]
    /\ UNCHANGED <<c1, c2, smodel>>

\* default_model_single(special, c, s, fname)
DefaultModelSingle(c, call, fname) ==
    /\ fs' = [fs EXCEPT ![fname] = open_trunc(fs[fname]) \o default_model_single_written(c)]
    /\ last' = [last EXCEPT ![fname] = call]
    /\ UNCHANGED <<c1, c2, smodel>>

----
(***************************************************************************)
(* lookups_bc_decomposition.hpp                                            *)
(***************************************************************************)

LOOKUP_TUPLE_SIZE == 2

SRC_SELECTOR == "bc_decomposition_sel"

DST_SELECTOR == "precomputed_sel_unary"

Mutant_SRC_COLUMNS ==
    <<"bc_decomposition_bytes_to_read_unary", "bc_decomposition_bytes_to_read">>

SRC_COLUMNS == <<"bc_decomposition_bytes_to_read", "bc_decomposition_bytes_to_read_unary">>

DST_COLUMNS == <<"precomputed_clk", "precomputed_as_unary">>

TraceLen == 2

(* The values a tuple column takes in the model: two suffice to tell the  *)
(* tuples and their positions apart.                                       *)
ColVals == {0, 1}

(* A row of the trace: the selectors and the tuple columns get_entities    *)
(* binds.  The counts and the inverses are the relation's own columns; the *)
(* relation accepts when some counts balance it.                           *)
Rows ==
    [bc_decomposition_sel : {0, 1},
     precomputed_sel_unary : {0, 1},
     bc_decomposition_bytes_to_read : ColVals,
     bc_decomposition_bytes_to_read_unary : ColVals,
     precomputed_clk : ColVals,
     precomputed_as_unary : ColVals]

\* the read term's tuple of a row: SRC_COLUMNS, position by position
read_tuple(row) == [k \in 1 .. LOOKUP_TUPLE_SIZE |-> row[SRC_COLUMNS[k]]]

\* the write term's tuple of a row: DST_COLUMNS, position by position
write_tuple(row) == [k \in 1 .. LOOKUP_TUPLE_SIZE |-> row[DST_COLUMNS[k]]]

RECURSIVE SumTo(_, _)
SumTo(f, n) == IF n = 0 THEN 0 ELSE f[n] + SumTo(f, n - 1)

(* GenericLookupRelation: the log-derivative sum over the rows vanishes,   *)
(*   sum_r SRC_SELECTOR_r / (X + read_r)                                   *)
(*     = sum_t DST_SELECTOR_t * COUNTS_t / (X + write_t),                  *)
(* which over a field larger than the trace says that every tuple value is *)
(* read as often as the counts of the rows writing it add up to.           *)
\* the left-hand side for tuple value v: rd is the rows' read tuples
reads_of(tr, rd, v) ==
    SumTo([r \in 1 .. Len(tr) |-> IF rd[r] = v THEN tr[r][SRC_SELECTOR] ELSE 0], Len(tr))

\* the right-hand side for tuple value v under the counts column: wr is the
\* rows' write tuples
writes_of(tr, wr, counts, v) ==
    SumTo([t \in 1 .. Len(tr) |->
             IF wr[t] = v THEN tr[t][DST_SELECTOR] * counts[t] ELSE 0], Len(tr))

(* The COUNTS column enters the sum only multiplied by DST_SELECTOR: the    *)
(* counts of a row that is no table entry change nothing and are taken 0.  *)
(* The INVERSES column only carries the inverses of the denominators and   *)
(* is left out.                                                            *)
relation_accepts(tr) ==
    LET rd == [r \in 1 .. Len(tr) |-> read_tuple(tr[r])]
        wr == [t \in 1 .. Len(tr) |-> write_tuple(tr[t])]
        tuples == {rd[r] : r \in 1 .. Len(tr)} \cup {wr[t] : t \in 1 .. Len(tr)}
        entries == {t \in 1 .. Len(tr) : tr[t][DST_SELECTOR] # 0}
    IN  \E c \in [entries -> 0 .. Len(tr)] :
           LET counts == [t \in 1 .. Len(tr) |-> IF t \in entries THEN c[t] ELSE 0]
           IN  \A v \in tuples : reads_of(tr, rd, v) = writes_of(tr, wr, counts, v)

InitLookup ==
    /\ trace = <<>>
    /\ lpc = "build"
    /\ accepted = FALSE

IdleLookup ==
    /\ trace = <<>>
    /\ lpc = "checked"
    /\ accepted = FALSE

\* one more row of the trace
AddRow ==
    /\ lpc = "build"
    /\ Len(trace) < TraceLen
    /\ \E row \in Rows : trace' = Append(trace, row)
    /\ UNCHANGED <<lpc, accepted>>

\* the relation lookup_bytecode_to_read_unary_relation is checked on the trace
CheckRelation ==
    /\ lpc = "build"
    /\ Len(trace) > 0
    /\ accepted' = relation_accepts(trace)
    /\ lpc' = "checked"
    /\ UNCHANGED trace

\* inverse_polynomial_is_computed_at_row(in)
inverse_polynomial_is_computed_at_row(row) ==
    (row.bc_decomposition_sel = 1 \/ row.precomputed_sel_unary = 1)

\* compute_inverse_exists(in)
Mutant_compute_inverse_exists(row) ==
    LET is_operation == row.bc_decomposition_sel
        is_table_entry == row.precomputed_sel_unary
    IN  FAdd(is_operation, is_table_entry)

compute_inverse_exists(row) ==
    LET is_operation == row.bc_decomposition_sel
        is_table_entry == row.precomputed_sel_unary
    IN  FSub(FAdd(is_operation, is_table_entry), FMul(is_operation, is_table_entry))

InitRow ==
    /\ in \in [bc_decomposition_sel : Field, precomputed_sel_unary : Field]
    /\ inverse_exists = 0
    /\ inverse_computed = FALSE
    /\ evaluated = {}

IdleRow ==
    /\ in = [bc_decomposition_sel |-> 0, precomputed_sel_unary |-> 0]
    /\ inverse_exists = 0
    /\ inverse_computed = FALSE
    /\ evaluated = {}

ComputeInverseExists ==
    /\ "compute_inverse_exists" \notin evaluated
    /\ inverse_exists' = compute_inverse_exists(in)
    /\ evaluated' = evaluated \cup {"compute_inverse_exists"}
    /\ UNCHANGED <<in, inverse_computed>>

InversePolynomialIsComputedAtRow ==
    /\ "inverse_polynomial_is_computed_at_row" \notin evaluated
    /\ inverse_computed' = inverse_polynomial_is_computed_at_row(in)
    /\ evaluated' = evaluated \cup {"inverse_polynomial_is_computed_at_row"}
    /\ UNCHANGED <<in, inverse_exists>>

----
(***************************************************************************)
(* The specifications                                                      *)
(***************************************************************************)

NextSmt ==
    \/ ExpressionTrue /\ UNCHANGED <<dumpVars, lookupVars, rowVars>>
    \/ MultiplicationTrueKind /\ UNCHANGED <<dumpVars, lookupVars, rowVars>>
    \/ MultiplicationFalse /\ UNCHANGED <<dumpVars, lookupVars, rowVars>>
    \/ UniqueWitness /\ UNCHANGED <<dumpVars, lookupVars, rowVars>>

SmtInit == InitSmt /\ IdleDump /\ IdleLookup /\ IdleRow

SpecSmt == SmtInit /\ [][NextSmt]_vars

NextDump ==
    \/ \E f \in FileNames : DefaultModel(f) /\ UNCHANGED <<smtVars, lookupVars, rowVars>>
    \/ \E f \in FileNames :
          DefaultModelSingle(c1, "default_model_single_c1", f)
          /\ UNCHANGED <<smtVars, lookupVars, rowVars>>
    \/ \E f \in FileNames :
          DefaultModelSingle(c2, "default_model_single_c2", f)
          /\ UNCHANGED <<smtVars, lookupVars, rowVars>>

DumpInit == InitDump /\ IdleSmt /\ IdleLookup /\ IdleRow

SpecDump == DumpInit /\ [][NextDump]_vars

NextLookup ==
    \/ AddRow /\ UNCHANGED <<smtVars, dumpVars, rowVars>>
    \/ CheckRelation /\ UNCHANGED <<smtVars, dumpVars, rowVars>>

LookupInit == InitLookup /\ IdleSmt /\ IdleDump /\ IdleRow

SpecLookup == LookupInit /\ [][NextLookup]_vars

NextRow ==
    \/ ComputeInverseExists /\ UNCHANGED <<smtVars, dumpVars, lookupVars>>
    \/ InversePolynomialIsComputedAtRow /\ UNCHANGED <<smtVars, dumpVars, lookupVars>>

RowInit == InitRow /\ IdleSmt /\ IdleDump /\ IdleLookup

SpecRow == RowInit /\ [][NextRow]_vars

----
(***************************************************************************)
(* The claims                                                              *)
(***************************************************************************)

(* C1: for the circuit c = (a + a) / (b + b + b), the circuit's            *)
(* constraints together with c != (2*a)/(2*b + b) have no model: the       *)
(* solver's check returns false.                                           *)
C1_ExpressionTrueUnsat ==
    (test = "expressionTrue" /\ pc = "done") => res = FALSE

C1_Witness ==
    /\ test = "expressionTrue" /\ pc = "done"
    /\ \E w \in Assignments : expressionTrue_circuit(w) /\ w.a # 0

(* C2: for the circuit c = (a + a) / (b + b + b), the circuit's            *)
(* constraints together with cr * 3 * b == 2 * a and c != cr have no       *)
(* model, the assignments with a = 0 or b = 0 included.                    *)
C2_MultiplicationTrueKindUnsat ==
    (test = "multiplicationTrueKind" /\ pc = "done") =>
        /\ res = FALSE
        /\ \A w \in Assignments :
              (multiplicationTrueKind_circuit(w)
                 /\ FMul(FMul(w.cr, 3), w.b) = FMul(2, w.a)) => w.c = w.cr

C2_Witness ==
    /\ test = "multiplicationTrueKind" /\ pc = "done"
    /\ \E w \in Assignments :
          /\ multiplicationTrueKind_circuit(w)
          /\ FMul(FMul(w.cr, 3), w.b) = FMul(2, w.a)
          /\ w.a = 0
    /\ \E w \in Assignments :
          /\ FMul(FMul(w.cr, 3), w.b) = FMul(2, w.a)
          /\ w.b = 0 /\ w.c # w.cr

(* C3: for the faulty circuit c = a / (b + b + b), the circuit's           *)
(* constraints together with c != (2*a)/(3*b) have a model: the check      *)
(* returns true, and the model read back gives values for a, b, c and cr   *)
(* that satisfy the circuit with c different from cr = (2*a)/(3*b).        *)
C3_MultiplicationFalseSat ==
    (test = "multiplicationFalse" /\ pc = "done") =>
        /\ res = TRUE
        /\ DOMAIN vals = {"a", "b", "c", "cr"}
        /\ \A k \in {"a", "b", "c", "cr"} : vals[k] = Dec(model[k])
        /\ multiplicationFalse_circuit(model)
        /\ FMul(model.cr, FMul(3, model.b)) = FMul(2, model.a)
        /\ model.c # model.cr

C3_Witness ==
    /\ test = "multiplicationFalse" /\ pc = "done" /\ res = TRUE
    /\ vals.c # vals.cr

(* C4: two copies of the circuit ev = z*z + a*z + b with equal ev and      *)
(* unequal z have a model, and in every model read back the z of the       *)
(* first copy differs from the z of the second.                            *)
C4_UniqueWitnessNotUnique ==
    (test = "uniqueWitness" /\ pc = "done") =>
        /\ res = TRUE
        /\ vals.z_c1 # vals.z_c2
        /\ model[1].ev = model[2].ev
        /\ uniqueWitness_circuit(model[1]) /\ uniqueWitness_circuit(model[2])

C4_Witness ==
    /\ test = "uniqueWitness" /\ pc = "done" /\ res = TRUE
    /\ model[1].a = model[2].a /\ model[1].b = model[2].b

(* The circuit a default_model_single call dumped.                         *)
SingleCircuit(call) == IF call = "default_model_single_c1" THEN c1 ELSE c2

(* C5: the file default_model_single writes is the header 'w = {', one     *)
(* line per variable index 0 .. get_num_vars()-1 in increasing order, and  *)
(* the closing '};'.  Line i holds the solver's value of variable i and    *)
(* that variable's name, and ends with ' -> real_variable_index[i]' if and *)
(* only if real_variable_index[i] != i.                                    *)
C5_SingleDumpFormat ==
    \A f \in FileNames :
        last[f] \in {"default_model_single_c1", "default_model_single_c2"} =>
            LET c == SingleCircuit(last[f])
                content == fs[f]
            IN  /\ Len(content) = NumVars + 2
                /\ content[1] = <<"w = {">>
                /\ content[NumVars + 2] = <<"};">>
                /\ \A i \in Idx :
                      LET line == content[i + 2]
                      IN  /\ Len(line) \in {3, 5}
                          /\ line[1] = Dec(smodel[symbolic_vars(c, i)])
                          /\ line[3] = symbolic_vars(c, i)
                          /\ (Len(line) = 5) <=> (c.real_variable_index[i] # i)
                          /\ Len(line) = 5 =>
                                (line[4] = " -> " /\ line[5] = c.real_variable_index[i])

C5_Witness ==
    \E f \in FileNames :
        /\ last[f] = "default_model_single_c1"
        /\ \E i, j \in Idx : c1.real_variable_index[i] # i /\ c1.real_variable_index[j] = j
        /\ \E i \in Idx : smodel[symbolic_vars(c1, i)]
                            # smodel[symbolic_vars(c1, c1.real_variable_index[i])]

(* C6: in the dump default_model writes, line i carries the ' -> k'        *)
(* comment exactly when variable i is an aliased witness, and k is the     *)
(* canonical index variable i resolves to, for both circuits c1 and c2.    *)
C6_DoubleDumpAliasBoth ==
    \A f \in FileNames :
        last[f] = "default_model" =>
            \A i \in Idx :
                LET line == fs[f][i + 2]
                    arrow == Len(line) = 11
                IN  /\ arrow <=> (c1.real_variable_index[i] # i)
                    /\ arrow <=> (c2.real_variable_index[i] # i)
                    /\ arrow => (line[11] = c1.real_variable_index[i]
                                 /\ line[11] = c2.real_variable_index[i])

(* C9: in default_model the pair of values on line i is the value of       *)
(* c1.symbolic_vars[c1.real_variable_index[i]] and the value of            *)
(* c2.symbolic_vars[c2.real_variable_index[i]]; two indices with the same  *)
(* representative in c1 get the same first value and first name, and       *)
(* likewise for c2 and the second value and name.                          *)
C9_DoubleDumpCanonical ==
    \A f \in FileNames :
        last[f] = "default_model" =>
            /\ Len(fs[f]) = NumVars + 2
            /\ \A i \in Idx :
                  LET line == fs[f][i + 2]
                  IN  /\ line[2] = Dec(smodel[symbolic_vars(c1, c1.real_variable_index[i])])
                      /\ line[4] = Dec(smodel[symbolic_vars(c2, c2.real_variable_index[i])])
                      /\ line[7] = symbolic_vars(c1, c1.real_variable_index[i])
                      /\ line[9] = symbolic_vars(c2, c2.real_variable_index[i])
            /\ \A i, j \in Idx :
                  LET li == fs[f][i + 2]
                      lj == fs[f][j + 2]
                  IN  /\ c1.real_variable_index[i] = c1.real_variable_index[j]
                         => (li[2] = lj[2] /\ li[7] = lj[7])
                      /\ c2.real_variable_index[i] = c2.real_variable_index[j]
                         => (li[4] = lj[4] /\ li[9] = lj[9])

C9_Witness ==
    \E f \in FileNames :
        /\ last[f] = "default_model"
        /\ \E i, j \in Idx :
              /\ i # j
              /\ c1.real_variable_index[i] = c1.real_variable_index[j]
              /\ smodel[symbolic_vars(c1, i)] # smodel[symbolic_vars(c1, j)]
              /\ c2.real_variable_index[i] # c2.real_variable_index[j]

(* What a call alone writes to an empty file.                              *)
WrittenAlone(call) ==
    CASE call = "none" -> <<>>
      [] call = "default_model" -> default_model_written(c1, c2)
      [] OTHER -> default_model_single_written(SingleCircuit(call))

(* C10: the dump file is replaced, never appended to: after any sequence   *)
(* of default_model and default_model_single calls on a file name, the     *)
(* file holds what the last call alone would have written (so a repeated   *)
(* call under an unchanged solver model leaves it unchanged).              *)
C10_FileReplaced ==
    \A f \in FileNames : fs[f] = WrittenAlone(last[f])

C10_Witness ==
    \E f, g \in FileNames :
        /\ f # g
        /\ last[f] = "default_model_single_c1" /\ last[g] = "default_model"
        /\ fs[f] # <<>> /\ fs[f] # fs[g]

BothEvaluated ==
    evaluated = {"compute_inverse_exists", "inverse_polynomial_is_computed_at_row"}

(* C8: on a row whose two selectors are both 0 or 1,                       *)
(* compute_inverse_exists is 1 exactly when                                *)
(* inverse_polynomial_is_computed_at_row is true and 0 exactly when it is  *)
(* false: the expression is the OR of the selectors.                       *)
C8_InverseExistsIsOr ==
    (/\ BothEvaluated
     /\ in.bc_decomposition_sel \in {0, 1}
     /\ in.precomputed_sel_unary \in {0, 1}) =>
        /\ (inverse_exists = 1) <=> inverse_computed
        /\ (inverse_exists = 0) <=> ~inverse_computed

C8_Witness ==
    /\ BothEvaluated
    /\ in.bc_decomposition_sel = 1 /\ in.precomputed_sel_unary = 1
    /\ inverse_exists = 1 /\ inverse_computed

====
